---- MODULE Spec2Model ----
(***************************************************************************)
(* userchroot: a setuid-root helper that validates a chroot target against *)
(* a root-owned policy file, changes root, drops privileges and execs.     *)
(*                                                                         *)
(* Strings are sequences of byte values (C char codes).  The filesystem,   *)
(* the policy file and the outcome of each system call are the            *)
(* environment of the process: a fact about them is drawn when the         *)
(* process first consults it and is remembered from then on.               *)
(***************************************************************************)
EXTENDS Integers, Sequences, FiniteSets, TLC

\* ------------------------------------------------------------------ bounds
\* uids are 0..MaxUid; 0 is root, the highest uid has no passwd entry.
MaxUid == 3

\* --------------------------------------------------------------- C strings
NUL   == 0
NL    == 10
Slash == 47
Dot   == 46
Dash  == 45
Colon == 58
Equals == 61

\* strlen / the C string held in a buffer: the bytes before the first NUL.
RECURSIVE CStr(_)
CStr(buf) ==
  IF buf = <<>> \/ Head(buf) = NUL THEN <<>>
  ELSE <<Head(buf)>> \o CStr(Tail(buf))

\* strchr(s, c) != NULL on the C string in buf.
strchr(buf, c) == \E i \in 1..Len(CStr(buf)) : CStr(buf)[i] = c

\* The index of the first c in s, 0 for none.
strchrIndex(s, c) ==
  IF \E i \in 1..Len(s) : s[i] = c
  THEN CHOOSE i \in 1..Len(s) : s[i] = c /\ \A k \in 1..(i-1) : s[k] # c
  ELSE 0

\* strrchr(s, c): index of the last c in s, 0 for NULL.
strrchr(s, c) ==
  IF \E i \in 1..Len(s) : s[i] = c
  THEN CHOOSE i \in 1..Len(s) : s[i] = c /\ \A k \in (i+1)..Len(s) : s[k] # c
  ELSE 0

\* strcspn(s, "="): length of the prefix without '='.
strcspn(s, c) ==
  IF \E i \in 1..Len(s) : s[i] = c
  THEN (CHOOSE i \in 1..Len(s) : s[i] = c /\ \A k \in 1..(i-1) : s[k] # c) - 1
  ELSE Len(s)

\* strncmp(a, b, n) == 0 for C strings.
strncmp0(a, b, n) ==
  LET x == CStr(a)
      y == CStr(b)
      px == SubSeq(x, 1, IF Len(x) < n THEN Len(x) ELSE n)
      py == SubSeq(y, 1, IF Len(y) < n THEN Len(y) ELSE n)
  IN px = py

\* The whitelist of one byte, slashes aside.
WhiteChar(c) ==
  \/ (c >= 65 /\ c <= 90)
  \/ (c >= 97 /\ c <= 122)
  \/ (c >= 48 /\ c <= 57)
  \/ c = 46 \/ c = 95 \/ c = 43 \/ c = 44 \/ c = 45

\* A whitelist that lets every byte through.
whitelist_char_check_any(str, allow_slashes) == TRUE

\* whitelist_char_check: TRUE when the call returns, FALSE when it exits.
whitelist_char_check(str, allow_slashes) ==
  \A i \in 1..Len(str) :
     \/ WhiteChar(str[i])
     \/ (allow_slashes /\ str[i] = Slash)

\* A directory test that follows a symbolic link to a directory.
S_ISDIR_or_link(r) == r.kind \in {"dir", "lnk"}

\* S_ISDIR(st_mode) on the result of a link-level stat.
S_ISDIR(r) == r.kind = "dir"

\* mode & 00022
ModeAnd022(mode) == ((mode \div 16) % 2) * 16 + ((mode \div 2) % 2) * 2

\* ------------------------------------------------------- the policy stream
\* A stdio stream over the bytes of the opened file: bytes consumed and the
\* end-of-file indicator.
Min(a, b) == IF a < b THEN a ELSE b

\* fgets(buf, n, stream): at most n-1 bytes, stopping after a newline.
\* ok = FALSE is the NULL return (nothing read); the indicator is set when
\* the read ran into the end of the file.
fgets(content, st, n) ==
  LET rem  == Len(content) - st.pos
      lim  == Min(n - 1, rem)
      nls  == {i \in 1..lim : content[st.pos + i] = NL}
      k    == IF nls # {} THEN CHOOSE i \in nls : \A j \in nls : i <= j ELSE lim
  IN IF rem = 0
     THEN [ok |-> FALSE, buf |-> <<>>, st |-> [pos |-> st.pos, eof |-> TRUE]]
     ELSE [ok |-> TRUE,
           buf |-> SubSeq(content, st.pos + 1, st.pos + k),
           st  |-> [pos |-> st.pos + k,
                    eof |-> st.eof \/ (nls = {} /\ k < n - 1)]]

\* The inner loop of the scan: consume the rest of a line that did not fit.
RECURSIVE SkipLongLine(_, _, _, _, _)
SkipLongLine(content, st, rline, ignore, n) ==
  IF strchr(rline, NL)
  THEN [st |-> st, rline |-> rline, ignore |-> ignore]
  ELSE IF st.eof
       THEN [st |-> st, rline |-> rline, ignore |-> TRUE]
       ELSE LET r == fgets(content, st, n)
            IN IF ~r.ok
               THEN [st |-> r.st, rline |-> rline, ignore |-> TRUE]
               ELSE SkipLongLine(content, r.st, r.buf, TRUE, n)

\* A scan that compares every fragment, whether or not the line fitted.
RECURSIVE ScanConfigNoIgnore(_, _, _, _)
ScanConfigNoIgnore(content, st, line, n) ==
  IF st.eof THEN FALSE
  ELSE LET r == fgets(content, st, n)
       IN IF ~r.ok THEN FALSE
          ELSE LET s == SkipLongLine(content, r.st, r.buf, FALSE, n)
               IN IF strncmp0(line, s.rline, n) THEN TRUE
                  ELSE ScanConfigNoIgnore(content, s.st, line, n)

\* The outer loop of the scan: the value of found when the loop ends.
RECURSIVE ScanConfig(_, _, _, _)
ScanConfig(content, st, line, n) ==
  IF st.eof THEN FALSE
  ELSE LET r == fgets(content, st, n)
       IN IF ~r.ok THEN FALSE
          ELSE LET s == SkipLongLine(content, r.st, r.buf, FALSE, n)
               IN IF ~s.ignore /\ strncmp0(line, s.rline, n) THEN TRUE
                  ELSE ScanConfig(content, s.st, line, n)

\* ------------------------------------------------------------------ paths
\* The components of a path, empty ones included.
\* (The recursive calls here and in Resolve take their arguments through a
\* bound variable, which holds a value: an argument passed as an
\* expression is evaluated again at each of its uses.)
RECURSIVE Split(_)
Split(p) ==
  LET i == strcspn(p, Slash)
  IN IF i = Len(p) THEN <<p>>
     ELSE <<SubSeq(p, 1, i)>>
            \o CHOOSE r \in {Split(q) : q \in {SubSeq(p, i + 2, Len(p))}} : TRUE

RECURSIVE Resolve(_, _)
Resolve(comps, stack) ==
  IF comps = <<>> THEN stack
  ELSE LET c == Head(comps)
           s == IF c = <<>> \/ c = <<Dot>> THEN stack
                ELSE IF c = <<Dot, Dot>>
                     THEN IF stack = <<>> THEN stack
                          ELSE SubSeq(stack, 1, Len(stack) - 1)
                     ELSE Append(stack, c)
       IN CHOOSE r \in {Resolve(t, u) : t \in {Tail(comps)}, u \in {s}} : TRUE

RECURSIVE Join(_)
Join(stack) ==
  IF stack = <<>> THEN <<>> ELSE <<Slash>> \o Head(stack) \o Join(Tail(stack))

\* The object a path names for the kernel, the process sitting in "/":
\* empty and "." components dropped, ".." resolved.
Canon(p) ==
  LET q == Join(Resolve(Split(p), <<>>))
  IN IF q = <<>> THEN <<Slash>> ELSE q

\* -------------------------------------------------------------- the inputs
\* CONFIGFILE, the path compiled in:  "/e/c"
CFG == <<47,101,47,99>>

\* argv[1] of the runs:
\*   "/s/j/w"  "/s/j/w/"  "s/j/w"  "/w"  "/s/j/.."  "/s/j/."  "/s/j/w*"
\*   "/s*/j/w"  "/j/w"
TargetArgs ==
  { <<47,115,47,106,47,119>>,
    <<47,115,47,106,47,119,47>>,
    <<115,47,106,47,119>>,
    <<47,119>>,
    <<47,115,47,106,47,46,46>>,
    <<47,115,47,106,47,46>>,
    <<47,115,47,106,47,119,42>>,
    <<47,115,42,47,106,47,119>>,
    <<47,106,47,119>> }

INSTALL_FLAG   == <<45,45,105,110,115,116,97,108,108,45,100,101,118,105,99,101,115>>
UNINSTALL_FLAG == <<45,45,117,110,105,110,115,116,97,108,108,45,100,101,118,105,99,101,115>>

\* argv[2] of the runs: "/b"  "/b*"  "--install-devices"
\*   "--uninstall-devices"  "--install-devicesX"  "-x"
ModeArgs ==
  { <<47,98>>, <<47,98,42>>, INSTALL_FLAG, UNINSTALL_FLAG,
    <<45,45,105,110,115,116,97,108,108,45,100,101,118,105,99,101,115,88>>,
    <<45,120>> }

PROG == <<117,115,101,114,99,104,114,111,111,116>>

\* The argument vectors: the program name alone with a path (argc = 2), or
\* with a path and a command or flag (argc = 3).
Argvs ==
  { <<PROG, t>> : t \in {<<47,115,47,106,47,119>>} } \cup
  { <<PROG, t, a>> : t \in TargetArgs, a \in ModeArgs }

\* The environment blocks: "A=1","B=2";  "A=1","=x" (an empty name);
\* "A=1","B" (an entry without '=').
Envs ==
  { << <<65,61,49>>, <<66,61,50>> >>,
    << <<65,61,49>>, <<61,120>> >>,
    << <<65,61,49>>, <<66>> >> }

Uids == 0..MaxUid

\* The user database: uid -> account name; "r", "a", "b".
Passwd == (0 :> <<114>>) @@ (1 :> <<97>>) @@ (2 :> <<98>>)

\* The identities a run can start with: ruid, euid, rgid, egid.  A setuid
\* binary starts with the saved ids equal to the effective ones.
EntryCreds ==
  { [ruid |-> r[1], euid |-> r[2], suid |-> r[2],
     rgid |-> r[3], egid |-> r[4], sgid |-> r[4]] :
    r \in { <<1, 0, 1, 1>>, <<2, 0, 2, 2>>, <<0, 0, 1, 1>>,
            <<1, 1, 1, 1>>, <<1, 0, 0, 1>>, <<1, 0, 1, 0>> } }

\* What a link-level stat can report: modes 0755, 0775, 0757.
NoEnt == [kind |-> "none", uid |-> 0, mode |-> 0]
StatResults ==
  [kind : {"dir", "reg", "lnk"}, uid : Uids, mode : {493, 509, 495}]
    \cup {NoEnt}

\* The bytes the opened policy file can hold:
\*   "a:/s/j\n"  "b:/s/j\n"  "r:/s/j\n"  "a:/s/j"  "a:/s/jj\n"
\*   "xxxxxxxa:/s/j\n"  "b:/s/j\na:/s/j\n"  "x\0\na:/s/j\n"  "a:/s\n"  ""
CfgContents ==
  { <<97,58,47,115,47,106,10>>,
    <<98,58,47,115,47,106,10>>,
    <<114,58,47,115,47,106,10>>,
    <<97,58,47,115,47,106>>,
    <<97,58,47,115,47,106,106,10>>,
    <<120,120,120,120,120,120,120,97,58,47,115,47,106,10>>,
    <<98,58,47,115,47,106,10,97,58,47,115,47,106,10>>,
    <<120,0,10,97,58,47,115,47,106,10>>,
    <<97,58,47,115,10>>,
    <<>> }

\* The device paths, in the order the provisioner takes them:
\*   "/dev/null" "/dev/zero" "/dev/random" "/dev/urandom"
DevPaths ==
  << <<47,100,101,118,47,110,117,108,108>>,
     <<47,100,101,118,47,122,101,114,111>>,
     <<47,100,101,118,47,114,97,110,100,111,109>>,
     <<47,100,101,118,47,117,114,97,110,100,111,109>> >>

\* ------------------------------------------------------------------ state
VARIABLES
  pc,        \* the position of main
  argv,      \* the argument vector, argv[1] the program name (C's argv[0])
  environ,   \* the process environment (extern char** environ)
  envp,      \* the block main received as its third parameter
  build,     \* build and libc: _HAVE_CLEARENV, unsetenv compacting in place
  cred,      \* real, effective and saved uid and gid
  fs,        \* path -> what a link-level stat of it reported
  config,    \* the policy stream: its state, inode opened, inode at CFG, bytes
  walk,      \* check_base_path: tosplit, interrupt, the paths it has stat-ed
  loc,       \* the locals of main
  dirs,      \* the working directory and the root directory of the process
  dev,       \* the chroot's device nodes and /dev/shm, the creation mask
  io,        \* the diagnostics on stderr and the exit status
  ops,       \* the state-changing system calls that succeeded, in order
  regain,    \* the regain attempts made and what each returned
  execd,     \* the image execve installed
  entry,     \* what the process was started with: environment block, ids
  hist,      \* the provisioner runs on this chroot: mode, devices found, exit
  world      \* what another user did to the path: components replaced, by whom

vars == <<pc, argv, environ, envp, build, cred, fs, config, walk, loc, dirs,
          dev, io, ops, regain, execd, entry, hist, world>>

NoPath == <<>>
NoUid == 0 - 1

NoLoc ==
  [target_user |-> NoUid, path |-> NoPath, final_dir_owner |-> NoUid,
   base_path |-> NoPath, relative_path |-> NoPath, statbase_uid |-> NoUid,
   pw_name |-> NoPath, found |-> FALSE, final_path |-> NoPath]

NoDev ==
  [known |-> FALSE, lofs |-> FALSE, linux |-> FALSE,
   nodes |-> <<>>, shm |-> "absent", umask |-> 18, i |-> 0]

NoWorld == [replaced |-> {}, by |-> NoUid]

NoExec == [done |-> FALSE, file |-> NoPath, argv |-> <<>>, envp |-> <<>>]

Init ==
  /\ pc = "start"
  /\ argv \in Argvs
  /\ environ \in Envs
  /\ envp = environ
  /\ build \in { [clearenv |-> TRUE,  inplace |-> FALSE],
                 [clearenv |-> FALSE, inplace |-> TRUE],
                 [clearenv |-> FALSE, inplace |-> FALSE] }
  /\ cred \in EntryCreds
  /\ fs = << >>
  /\ config = [state |-> "none", fdIno |-> 0, pathIno |-> 1,
               read |-> FALSE, content |-> <<>>]
  /\ walk = [tosplit |-> NoPath, interrupt |-> FALSE, seen |-> <<>>]
  /\ loc = NoLoc
  /\ dirs = [cwd |-> <<Slash>>, root |-> <<Slash>>]
  /\ dev = NoDev
  /\ io = [stderr |-> <<>>, exitCode |-> "none"]
  /\ ops = <<>>
  /\ regain = <<>>
  /\ execd = NoExec
  /\ entry = [envp |-> envp, ruid |-> cred.ruid, euid |-> cred.euid,
              rgid |-> cred.rgid, egid |-> cred.egid]
  /\ hist = <<>>
  /\ world = NoWorld

\* fprintf(stderr, ...) of each message of msgs, then exit(ERR_EXIT_CODE).
Fail(msgs) ==
  /\ pc' = "exit"
  /\ io' = [stderr |-> io.stderr \o msgs, exitCode |-> "ERR_EXIT_CODE"]

\* lstat(p) reporting r: what an earlier stat of the same object reported,
\* or, for an object not yet consulted, any result.
Lstat(p, r) ==
  IF Canon(p) \in DOMAIN fs THEN r = fs[Canon(p)] ELSE r \in StatResults

Seen(p, r) == IF Canon(p) \in DOMAIN fs THEN fs ELSE (Canon(p) :> r) @@ fs

\* ------------------------------------------------------ portable_clearenv
\* The name of an environment entry: the bytes before '='.
EnvName(e) == SubSeq(e, 1, strcspn(e, Equals))

\* unsetenv(name): every entry "name=..." leaves the array; an entry
\* without '=' is no variable and stays.
unsetenv(env, name) ==
  SelectSeq(env, LAMBDA e : ~(/\ Len(e) > Len(name)
                              /\ SubSeq(e, 1, Len(name)) = name
                              /\ e[Len(name) + 1] = Equals))

\* A walk that unsets the first name and stops.
UnsetWalkOnce(env) ==
  IF env = <<>> THEN [env |-> env, corrupted |-> FALSE, stuck |-> FALSE]
  ELSE [env |-> unsetenv(env, EnvName(env[1])), corrupted |-> FALSE,
        stuck |-> FALSE]

\* The per-name walk: the array when the loop ends, whether it ended on
\* an entry with an empty name, and whether it came to an entry that
\* unsetenv leaves in place, on which the loop turns for ever.
RECURSIVE UnsetWalk(_)
UnsetWalk(env) ==
  IF env = <<>> THEN [env |-> env, corrupted |-> FALSE, stuck |-> FALSE]
  ELSE IF strcspn(env[1], Equals) = 0
       THEN [env |-> env, corrupted |-> TRUE, stuck |-> FALSE]
       ELSE IF unsetenv(env, EnvName(env[1])) = env
            THEN [env |-> env, corrupted |-> FALSE, stuck |-> TRUE]
            ELSE UnsetWalk(unsetenv(env, EnvName(env[1])))

\* execve hands over the array main received.  The native clear drops the
\* process's pointer to it; the per-name walk compacts the array environ
\* points to, which is that same array unless libc moved environ first.
EnvpAfterClear(blk, env) ==
  IF ~build.clearenv /\ build.inplace THEN env ELSE blk

PortableClearenv ==
  /\ pc = "start"
  /\ UNCHANGED <<argv, build, cred, fs, config, walk, loc, dirs, dev, ops,
                 regain, execd, entry, hist, world>>
  /\ \E ok \in BOOLEAN :
       IF build.clearenv
       THEN IF ok
            THEN /\ environ' = <<>>
                 /\ envp' = EnvpAfterClear(envp, <<>>)
                 /\ pc' = "ids"
                 /\ UNCHANGED io
            ELSE /\ Fail(<<"Failed to clear environment">>)
                 /\ UNCHANGED <<environ, envp>>
       ELSE LET w == UnsetWalk(environ)
            IN IF ~ok /\ environ # <<>> /\ strcspn(environ[1], Equals) # 0
               THEN /\ Fail(<<"Failed to clear envionment">>)
                    /\ UNCHANGED <<environ, envp>>
               ELSE /\ environ' = w.env
                    /\ envp' = EnvpAfterClear(envp, w.env)
                    /\ IF w.corrupted
                       THEN Fail(<<"Corrupted environment">>)
                       ELSE /\ pc' = IF w.stuck THEN "envloop" ELSE "ids"
                            /\ UNCHANGED io

\* --------------------------------------------------------- main: identity
\* A group test that looks at the effective gid alone.
SetgidRootEffectiveOnly(c) == c.egid = 0

\* getgid() == 0 || getegid() == 0
SetgidRoot(c) == c.rgid = 0 \/ c.egid = 0

CheckIds ==
  /\ pc = "ids"
  /\ UNCHANGED <<argv, environ, envp, build, cred, fs, config, walk, dirs,
                 dev, ops, regain, execd, entry, hist, world>>
  /\ IF cred.euid # 0
     THEN Fail(<<"Should be run with root privileges">>) /\ UNCHANGED loc
     ELSE IF SetgidRoot(cred)
     THEN Fail(<<"userchroot should not be setgid root">>) /\ UNCHANGED loc
     ELSE /\ loc' = [loc EXCEPT !.target_user = cred.ruid]
          /\ IF cred.ruid = 0
             THEN Fail(<<"Should not be run as root">>)
             ELSE pc' = "open" /\ UNCHANGED io

\* ------------------------------------------------------ main: config open
OpenConfig ==
  /\ pc = "open"
  /\ UNCHANGED <<argv, environ, envp, build, cred, fs, loc, dirs, dev, ops,
                 regain, execd, entry, hist, world>>
  /\ \E ok \in BOOLEAN :
       IF ok
       THEN /\ config' = [config EXCEPT !.state = "open",
                                         !.fdIno = config.pathIno]
            /\ walk' = [tosplit |-> CFG, interrupt |-> FALSE, seen |-> <<>>]
            /\ pc' = "cfgwalk"
            /\ UNCHANGED io
       ELSE /\ Fail(<<"Failed to open configuration file">>)
            /\ UNCHANGED <<config, walk>>

\* Another process renames a new file over CFG after the open and before
\* the link-level stat of CFG.
ReplaceConfig ==
  /\ pc \in {"cfgwalk", "cfgstat"}
  /\ config.state = "open"
  /\ config.pathIno = config.fdIno
  /\ config' = [config EXCEPT !.pathIno = config.pathIno + 1]
  /\ UNCHANGED <<pc, argv, environ, envp, build, cred, fs, walk, loc, dirs,
                 dev, io, ops, regain, execd, entry, hist, world>>

\* -------------------------------------------------------- check_base_path
\* The checks of one iteration that leave the owner unchecked.
AncestorFaultAnyOwner(r) ==
  IF r.kind = "none" THEN "Failed to stat directory"
  ELSE IF r.kind # "dir" THEN "is not a directory"
  ELSE IF ModeAnd022(r.mode) # 0 THEN "has non-restrictive permissions"
  ELSE "none"

\* The checks of one iteration on what lstat reported: the diagnostic of
\* the first that fails, "none" when all pass.
AncestorFault(r) ==
  IF r.kind = "none" THEN "Failed to stat directory"
  ELSE IF ~S_ISDIR(r) THEN "is not a directory"
  ELSE IF r.uid # 0 THEN "should be owned by root"
  ELSE IF ModeAnd022(r.mode) # 0 THEN "has non-restrictive permissions"
  ELSE "none"

\* One iteration of the loop of check_base_path; the last one returns to
\* the caller (check_config_file or main).
CheckBasePathStep ==
  /\ pc \in {"cfgwalk", "basewalk"}
  /\ ~walk.interrupt
  /\ UNCHANGED <<argv, environ, envp, build, cred, config, loc, dirs, dev,
                 ops, regain, execd, entry, hist, world>>
  /\ LET slash == strrchr(walk.tosplit, Slash)
         last  == (slash = 1)
         ts    == IF last THEN walk.tosplit
                  ELSE SubSeq(walk.tosplit, 1, slash - 1)
     IN IF slash = 0
        THEN /\ Fail(<<"Paths should be always absolute">>)
             /\ UNCHANGED <<fs, walk>>
        ELSE \E r \in StatResults :
               /\ Lstat(ts, r)
               /\ fs' = Seen(ts, r)
               /\ walk' = [tosplit |-> ts, interrupt |-> last,
                           seen |-> Append(walk.seen, ts)]
               /\ IF AncestorFault(r) # "none"
                  THEN Fail(<<AncestorFault(r)>>)
                  ELSE /\ UNCHANGED io
                       /\ pc' = IF ~last THEN pc
                                ELSE IF pc = "cfgwalk" THEN "cfgstat"
                                ELSE "scan"

\* ------------------------------------------------------ check_config_file
\* The part of check_config_file after the ancestor walk.
CheckConfigFile ==
  /\ pc = "cfgstat"
  /\ UNCHANGED <<argv, environ, envp, build, cred, config, walk, loc, dirs,
                 dev, ops, regain, execd, entry, hist, world>>
  /\ \E r \in StatResults, fstatOk \in BOOLEAN :
       /\ Lstat(CFG, r)
       /\ fs' = Seen(CFG, r)
       /\ LET notreg == IF r.kind # "reg"
                        THEN <<"is not a regular file">> ELSE <<>>
              moved  == IF config.fdIno # config.pathIno
                        THEN <<"Config file moved after opening">> ELSE <<>>
          IN IF r.kind = "none"
             THEN Fail(<<"Failed to stat config file">>)
             ELSE IF r.uid # 0
             THEN Fail(notreg \o <<"Configuration file should be owned by root">>)
             ELSE IF ModeAnd022(r.mode) # 0
             THEN Fail(notreg \o
                       <<"Configuration file has non-restrictive permissions">>)
             ELSE IF ~fstatOk
             THEN Fail(notreg \o <<"Failed to fstat">>)
             ELSE /\ io' = [io EXCEPT !.stderr = io.stderr \o notreg \o moved]
                  /\ pc' = "args"

\* --------------------------------------------------- main: the target path
argc == Len(argv)

\* argv[i] of the C program.
Arg(i) == argv[i + 1]

\* The target is read, whitelisted, stat-ed and split in base and leaf.
ValidateTarget ==
  /\ pc = "args"
  /\ UNCHANGED <<argv, environ, envp, build, cred, config, walk, dirs, dev,
                 ops, regain, execd, entry, hist, world>>
  /\ IF argc < 3
     THEN Fail(<<"usage">>) /\ UNCHANGED <<fs, loc>>
     ELSE
       LET path  == Arg(1)
           slash == strrchr(path, Slash)
           base  == SubSeq(path, 1, slash - 1)
           rel   == SubSeq(path, slash + 1, Len(path))
       IN IF ~whitelist_char_check(path, TRUE)
          THEN /\ Fail(<<"contains non-whitelisted characters">>)
               /\ loc' = [loc EXCEPT !.path = path]
               /\ UNCHANGED fs
          ELSE \E r \in StatResults :
            /\ Lstat(path, r)
            /\ fs' = Seen(path, r)
            /\ IF r.kind = "none"
               THEN /\ Fail(<<"Failed to stat", "usage">>)
                    /\ loc' = [loc EXCEPT !.path = path]
               ELSE IF ~S_ISDIR(r)
               THEN /\ Fail(<<"is not a directory", "usage">>)
                    /\ loc' = [loc EXCEPT !.path = path]
               ELSE IF ModeAnd022(r.mode) # 0
               THEN /\ Fail(<<"has non-restrictive permissions">>)
                    /\ loc' = [loc EXCEPT !.path = path]
               ELSE
                 /\ loc' = [loc EXCEPT !.path = path,
                                       !.final_dir_owner = r.uid,
                                       !.base_path =
                                          IF path[1] = Slash THEN base ELSE @,
                                       !.relative_path =
                                          IF path[1] = Slash THEN rel ELSE @]
                 /\ IF path[1] # Slash
                    THEN Fail(<<"should be absolute", "usage">>)
                    ELSE IF base = <<>>
                    THEN Fail(<<"not a possible target", "usage">>)
                    ELSE IF rel = <<>>
                    THEN Fail(<<"Trailing slashes are not allowed", "usage">>)
                    ELSE IF rel = <<Dot>> \/ rel = <<Dot, Dot>>
                    THEN Fail(<<". and .. are not allowed">>)
                    ELSE IF ~whitelist_char_check(base, TRUE)
                            \/ ~whitelist_char_check(rel, FALSE)
                    THEN Fail(<<"contains non-whitelisted characters">>)
                    ELSE pc' = "base" /\ UNCHANGED io

\* A lookup of the caller's account instead of the owner's.
PolicyUidOfCaller(owner, caller) == caller

\* The uid main hands to getpwuid: the owner of base, not the caller.
PolicyUid(owner, caller) == owner

\* The base is stat-ed, its owner compared and looked up.
ValidateBase ==
  /\ pc = "base"
  /\ UNCHANGED <<argv, environ, envp, build, cred, config, dirs, dev, ops,
                 regain, execd, entry, hist, world>>
  /\ \E r \in StatResults :
       /\ Lstat(loc.base_path, r)
       /\ fs' = Seen(loc.base_path, r)
       /\ IF r.kind = "none"
          THEN Fail(<<"Failed to stat", "usage">>) /\ UNCHANGED <<loc, walk>>
          ELSE IF ~S_ISDIR(r)
          THEN Fail(<<"is not a directory", "usage">>)
               /\ UNCHANGED <<loc, walk>>
          ELSE IF ModeAnd022(r.mode) # 0
          THEN Fail(<<"has non-restrictive permissions">>)
               /\ UNCHANGED <<loc, walk>>
          ELSE IF r.uid # loc.final_dir_owner
          THEN /\ Fail(<<"must have the same owner">>)
               /\ loc' = [loc EXCEPT !.statbase_uid = r.uid]
               /\ UNCHANGED walk
          ELSE IF PolicyUid(r.uid, loc.target_user) \notin DOMAIN Passwd
          THEN /\ Fail(<<"Failed to getpwuid">>)
               /\ loc' = [loc EXCEPT !.statbase_uid = r.uid]
               /\ UNCHANGED walk
          ELSE /\ loc' = [loc EXCEPT !.statbase_uid = r.uid,
                                     !.pw_name =
                                        Passwd[PolicyUid(r.uid, loc.target_user)]]
               /\ walk' = [tosplit |-> loc.base_path, interrupt |-> FALSE,
                           seen |-> <<>>]
               /\ pc' = "basewalk"
               /\ UNCHANGED io

\* --------------------------------------------------- main: the policy scan
\* snprintf(line, linelen, "%s:%s\n", pw_name, base_path)
PolicyLine(name, base) == name \o <<Colon>> \o base \o <<NL>>

\* The bytes the descriptor yields: a directory yields none.
Readable(content) ==
  (CFG \in DOMAIN fs /\ fs[CFG].kind = "dir" /\ config.fdIno = config.pathIno)
     => content = <<>>

\* A scan that leaves the stream as it is.
fcloseSkipped(c) == c

\* fclose(config) returning 0: the stream and its descriptor are gone.
fclose(c) == [c EXCEPT !.state = "closed"]

Authorize ==
  /\ pc = "scan"
  /\ UNCHANGED <<argv, environ, envp, build, cred, fs, walk, dirs, dev, ops,
                 regain, execd, entry, hist, world>>
  /\ \E content \in CfgContents, closeOk \in BOOLEAN :
       LET line    == PolicyLine(loc.pw_name, loc.base_path)
           linelen == Len(loc.base_path) + Len(loc.pw_name) + 3
           found   == ScanConfig(content, [pos |-> 0, eof |-> FALSE],
                                 line, linelen)
       IN /\ Readable(content)
          /\ IF ~closeOk
             THEN /\ config' = [config EXCEPT !.read = TRUE,
                                               !.content = content]
                  /\ loc' = [loc EXCEPT !.found = found]
                  /\ Fail(<<"Failed to close configuration file">>)
             ELSE /\ config' = [fclose(config) EXCEPT !.read = TRUE,
                                                       !.content = content]
                  /\ IF ~found
                     THEN /\ loc' = [loc EXCEPT !.found = FALSE]
                          /\ Fail(<<"Permission Denied">>)
                     ELSE /\ loc' = [loc EXCEPT
                                 !.found = TRUE,
                                 !.final_path = loc.base_path \o <<Slash>>
                                                  \o loc.relative_path]
                          /\ pc' = "mode"
                          /\ UNCHANGED io

\* ------------------------------------------------ main: argument parsing
\* The builds of the provisioner: mknod with the Linux /dev/shm block,
\* mknod without it, loopback mounts.
DevBuilds ==
  { [lofs |-> FALSE, linux |-> TRUE], [lofs |-> FALSE, linux |-> FALSE],
    [lofs |-> TRUE, linux |-> FALSE] }

\* What the chroot's /dev can hold when the provisioner first looks at it:
\* nothing, a full installation, /dev/null alone, or (the owner's doing) a
\* plain file in the place of /dev/shm.
DevStates(b) ==
  LET made == IF b.lofs THEN "mounted" ELSE "node"
      none == <<"absent", "absent", "absent", "absent">>
  IN { [nodes |-> none, shm |-> "absent"],
       [nodes |-> <<made, made, made, made>>,
        shm |-> IF b.linux THEN "mounted" ELSE "absent"],
       [nodes |-> <<made, "absent", "absent", "absent">>,
        shm |-> "absent"] }
     \cup (IF b.linux THEN {[nodes |-> none, shm |-> "file"]} ELSE {})

\* An owner test that lets every caller through.
OwnerOnlyAny(user, owner) == TRUE

\* target_user != statbase_path.st_uid refuses the device modes.
OwnerOnly(user, owner) == user = owner

\* The branch on argv[2]; entering create_fundamental_devices sets the
\* creation mask to 0070.  The chroot's /dev is drawn when the provisioner
\* first looks at it, and is what the run before left otherwise.
SelectMode ==
  /\ pc = "mode"
  /\ UNCHANGED <<argv, environ, envp, build, cred, fs, config, walk, loc,
                 dirs, ops, regain, execd, entry, world>>
  /\ IF argc >= 3 /\ Arg(2) # <<>> /\ Arg(2)[1] = Dash
     THEN IF ~OwnerOnly(loc.target_user, loc.statbase_uid)
          THEN Fail(<<"can only be called by the owner of the chroot">>)
               /\ UNCHANGED <<dev, hist>>
          ELSE IF strncmp0(INSTALL_FLAG, Arg(2), 17)
                  \/ strncmp0(UNINSTALL_FLAG, Arg(2), 19)
          THEN LET inst == strncmp0(INSTALL_FLAG, Arg(2), 17)
               IN \E b \in IF dev.known
                             THEN {[lofs |-> dev.lofs, linux |-> dev.linux]}
                             ELSE DevBuilds :
                  \E d \in IF dev.known
                             THEN {[nodes |-> dev.nodes, shm |-> dev.shm]}
                             ELSE DevStates(b) :
                 /\ dev' = [known |-> TRUE, lofs |-> b.lofs,
                            linux |-> b.linux, nodes |-> d.nodes,
                            shm |-> d.shm,
                            umask |-> IF inst THEN 56 ELSE dev.umask,
                            i |-> 1]
                 /\ hist' = Append(hist,
                              [mode |-> IF inst THEN "install"
                                        ELSE "uninstall",
                               nodes |-> d.nodes, shm |-> d.shm,
                               exit |-> "none"])
                 /\ pc' = IF inst THEN "install" ELSE "uninstall"
                 /\ UNCHANGED io
          ELSE Fail(<<"usage">>) /\ UNCHANGED <<dev, hist>>
     ELSE pc' = "chdir" /\ UNCHANGED <<io, dev, hist>>

\* ------------------------------------------------- the device provisioner
Exit0 ==
  /\ pc' = "exit"
  /\ io' = [io EXCEPT !.exitCode = "0"]

\* A test of the target that never finds it.
AlreadyExistsNever(st) == FALSE

\* stat(final_path) succeeds: something is at the device's path.
AlreadyExists(st) == st # "absent"

\* create_fundamental_device for the dev.i-th device path.
CreateFundamentalDevice ==
  /\ pc = "install"
  /\ UNCHANGED <<argv, environ, envp, build, cred, fs, config, walk, loc,
                 dirs, regain, execd, entry, hist, world>>
  /\ \E hostOk \in BOOLEAN, mkOk \in BOOLEAN, mountOk \in BOOLEAN :
       LET i     == dev.i
           st0   == dev.nodes[i]
           after == IF i < Len(DevPaths) THEN "install"
                    ELSE IF dev.linux THEN "shm" ELSE "exit"
           \* mkdir / mknod make the path only where there is none
           made  == st0 = "absent" /\ mkOk
           st1   == IF made THEN "dir" ELSE st0
           nomk  == IF made THEN <<>> ELSE <<"Failed to mkdir">>
           done(st, calls, msgs) ==
             /\ ops' = ops \o calls
             /\ pc' = after
             /\ dev' = [dev EXCEPT !.nodes[i] = st, !.i = i + 1,
                                   !.umask = IF after = "exit" THEN 18 ELSE @]
             /\ io' = [stderr |-> io.stderr \o msgs,
                       exitCode |-> IF after = "exit" THEN "0"
                                    ELSE io.exitCode]
       IN IF AlreadyExists(st0)
          THEN Fail(<<"already exists">>) /\ UNCHANGED <<dev, ops>>
          ELSE IF ~hostOk
          THEN Fail(<<"Failed to stat device">>) /\ UNCHANGED <<dev, ops>>
          ELSE IF dev.lofs
          THEN IF st1 \in {"dir", "mounted"} /\ mountOk
               THEN done("mounted",
                         (IF made THEN <<"mkdir">> ELSE <<>>) \o <<"mount">>,
                         nomk)
               ELSE /\ Fail(nomk \o <<"Failed to lofs mount">>)
                    /\ dev' = [dev EXCEPT !.nodes[i] = st1]
                    /\ ops' = ops \o (IF made THEN <<"mkdir">> ELSE <<>>)
          ELSE IF made
               THEN done("node", <<"mknod">>, <<>>)
               ELSE /\ Fail(<<"Failed to create the device">>)
                    /\ UNCHANGED <<dev, ops>>

\* The /dev/shm block of create_fundamental_devices, then return 0.  The
\* results of umount2, rmdir and mkdir are not looked at.
CreateShm ==
  /\ pc = "shm"
  /\ UNCHANGED <<argv, environ, envp, build, cred, fs, config, walk, loc,
                 dirs, regain, execd, entry, hist, world>>
  /\ \E umountOk \in BOOLEAN, rmdirOk \in BOOLEAN, mkdirOk \in BOOLEAN,
        chownOk \in BOOLEAN, chmodOk \in BOOLEAN, statOk \in BOOLEAN,
        mountOk \in BOOLEAN :
       LET s0 == dev.shm
           s1 == IF s0 = "mounted" /\ umountOk THEN "dir" ELSE s0
           s2 == IF s1 = "dir" /\ rmdirOk THEN "absent" ELSE s1
           s3 == IF s2 = "absent" /\ mkdirOk THEN "dir" ELSE s2
           c1 == (IF s1 # s0 THEN <<"umount">> ELSE <<>>)
                 \o (IF s2 # s1 THEN <<"rmdir">> ELSE <<>>)
                 \o (IF s3 # s2 THEN <<"mkdir">> ELSE <<>>)
           stop(msg, calls) ==
             /\ Fail(<<msg>>)
             /\ dev' = [dev EXCEPT !.shm = s3]
             /\ ops' = ops \o c1 \o calls
       IN IF s3 = "absent" \/ ~chownOk
          THEN stop("Could not chown", <<>>)
          ELSE IF ~chmodOk
          THEN stop("Could not chmod", <<"chown">>)
          ELSE IF ~statOk
          THEN stop("Could not stat", <<"chown", "chmod">>)
          ELSE IF s3 = "file"
          THEN stop("not a directory", <<"chown", "chmod">>)
          ELSE IF ~mountOk
          THEN stop("Could not mount", <<"chown", "chmod">>)
          ELSE /\ Exit0
               /\ dev' = [dev EXCEPT !.shm = "mounted", !.umask = 18]
               /\ ops' = ops \o c1 \o <<"chown", "chmod", "mount">>

\* An uninstall that leaves /dev/shm alone.
UninstallSkipsShm(d) == FALSE

\* unlink_fundamental_devices has the /dev/shm block on Linux builds.
UninstallHasShm(d) == d.linux

\* unlink_fundamental_device for the dev.i-th device path.
UnlinkFundamentalDevice ==
  /\ pc = "uninstall"
  /\ UNCHANGED <<argv, environ, envp, build, cred, fs, config, walk, loc,
                 dirs, regain, execd, entry, hist, world>>
  /\ \E ok1 \in BOOLEAN, ok2 \in BOOLEAN :
       LET i     == dev.i
           after == IF i < Len(DevPaths) THEN "uninstall"
                    ELSE IF UninstallHasShm(dev) THEN "unshm" ELSE "exit"
           done(calls) ==
             /\ ops' = ops \o calls
             /\ pc' = after
             /\ dev' = [dev EXCEPT !.nodes[i] = "absent", !.i = i + 1]
             /\ io' = IF after = "exit"
                      THEN [io EXCEPT !.exitCode = "0"] ELSE io
       IN IF dev.lofs
          THEN IF dev.nodes[i] # "mounted" \/ ~ok1
               THEN Fail(<<"Failed to umount">>) /\ UNCHANGED <<dev, ops>>
               ELSE IF ~ok2
               THEN /\ Fail(<<"Failed to rmdir">>)
                    /\ dev' = [dev EXCEPT !.nodes[i] = "dir"]
                    /\ ops' = Append(ops, "umount")
               ELSE done(<<"umount", "rmdir">>)
          ELSE IF dev.nodes[i] = "absent" \/ ~ok1
               THEN Fail(<<"Failed to unlink">>) /\ UNCHANGED <<dev, ops>>
               ELSE done(<<"unlink">>)

\* The /dev/shm block of unlink_fundamental_devices, then return 0.
UnlinkShm ==
  /\ pc = "unshm"
  /\ UNCHANGED <<argv, environ, envp, build, cred, fs, config, walk, loc,
                 dirs, regain, execd, entry, hist, world>>
  /\ \E umountOk \in BOOLEAN, rmdirOk \in BOOLEAN :
       IF dev.shm # "mounted" \/ ~umountOk
       THEN Fail(<<"Could not unmount">>) /\ UNCHANGED <<dev, ops>>
       ELSE IF ~rmdirOk
       THEN /\ Fail(<<"Could not rmdir">>)
            /\ dev' = [dev EXCEPT !.shm = "dir"]
            /\ ops' = Append(ops, "umount")
       ELSE /\ Exit0
            /\ dev' = [dev EXCEPT !.shm = "absent"]
            /\ ops' = ops \o <<"umount", "rmdir">>

\* ------------------------------------------ the kernel's credential rules
\* call(0) by a process with credentials c: whether it is permitted, and
\* the credentials after it.
Permitted(call, c) ==
  CASE call = "setuid"  -> c.euid = 0 \/ 0 \in {c.ruid, c.suid}
    [] call = "seteuid" -> c.euid = 0 \/ 0 \in {c.ruid, c.suid}
    [] call = "setgid"  -> c.euid = 0 \/ 0 \in {c.rgid, c.sgid}
    [] call = "setegid" -> c.euid = 0 \/ 0 \in {c.rgid, c.sgid}

After(call, c) ==
  CASE call = "setuid"  -> IF c.euid = 0
                           THEN [c EXCEPT !.ruid = 0, !.suid = 0]
                           ELSE [c EXCEPT !.euid = 0]
    [] call = "seteuid" -> [c EXCEPT !.euid = 0]
    [] call = "setgid"  -> IF c.euid = 0
                           THEN [c EXCEPT !.rgid = 0, !.egid = 0, !.sgid = 0]
                           ELSE [c EXCEPT !.egid = 0]
    [] call = "setegid" -> [c EXCEPT !.egid = 0]

\* ------------------------------------------------ the privilege transition
Chdir ==
  /\ pc = "chdir"
  /\ UNCHANGED <<argv, environ, envp, build, cred, fs, config, walk, loc,
                 dev, regain, execd, entry, hist, world>>
  /\ \E ok \in BOOLEAN :
       IF ok
       THEN /\ dirs' = [dirs EXCEPT !.cwd = loc.final_path]
            /\ ops' = Append(ops, "chdir")
            /\ pc' = "chroot"
            /\ UNCHANGED io
       ELSE /\ Fail(<<"Failed to chdir to the chroot directory">>)
            /\ UNCHANGED <<dirs, ops>>

Chroot ==
  /\ pc = "chroot"
  /\ UNCHANGED <<argv, environ, envp, build, cred, fs, config, walk, loc,
                 dev, regain, execd, entry, hist, world>>
  /\ \E ok \in BOOLEAN :
       IF ok
       THEN /\ dirs' = [dirs EXCEPT !.root = loc.final_path]
            /\ ops' = Append(ops, "chroot")
            /\ pc' = "setuid"
            /\ UNCHANGED io
       ELSE /\ Fail(<<"Failed to chroot">>)
            /\ UNCHANGED <<dirs, ops>>

\* setuid(target_user) by the effective root: it fails, or sets the real,
\* effective and saved uid, or (a platform that keeps the saved id) sets
\* the real and effective uid only.
Setuid ==
  /\ pc = "setuid"
  /\ UNCHANGED <<argv, environ, envp, build, fs, config, walk, loc, dirs,
                 dev, regain, execd, entry, hist, world>>
  /\ \E outcome \in {"fails", "all", "keeps_saved"} :
       IF outcome = "fails"
       THEN /\ Fail(<<"Failed to give up privileges">>)
            /\ UNCHANGED <<cred, ops>>
       ELSE /\ cred' = [cred EXCEPT
                          !.ruid = loc.target_user,
                          !.euid = loc.target_user,
                          !.suid = IF outcome = "all"
                                   THEN loc.target_user ELSE @]
            /\ ops' = Append(ops, "setuid")
            /\ pc' = "regain"
            /\ UNCHANGED io

RegainCalls == <<"setuid", "seteuid", "setgid", "setegid">>

\* A regain test that goes on without attempting anything.
RegainTestSkipped ==
  /\ pc = "regain"
  /\ UNCHANGED <<argv, environ, envp, build, fs, config, walk, loc, dirs,
                 dev, ops, execd, cred, regain, io, entry, hist, world>>
  /\ pc' = "chdirroot"

\* The four regain attempts, the first success ending them, and the four
\* ids read back.
RegainTest ==
  /\ pc = "regain"
  /\ UNCHANGED <<argv, environ, envp, build, fs, config, walk, loc, dirs,
                 dev, ops, execd, entry, hist, world>>
  /\ LET wins == {k \in 1..4 : Permitted(RegainCalls[k], cred)}
         n    == IF wins = {} THEN 4
                 ELSE CHOOSE k \in wins : \A j \in wins : k <= j
     IN /\ regain' = [k \in 1..n |->
                        [call |-> RegainCalls[k],
                         rc |-> IF k \in wins THEN 0 ELSE 0 - 1]]
        /\ IF wins # {}
           THEN /\ cred' = After(RegainCalls[n], cred)
                /\ Fail(<<"Failed to give up privileges">>)
           ELSE /\ UNCHANGED cred
                /\ IF cred.ruid = 0 \/ cred.euid = 0
                      \/ cred.rgid = 0 \/ cred.egid = 0
                   THEN Fail(<<"Failed to give up privileges">>)
                   ELSE pc' = "chdirroot" /\ UNCHANGED io

ChdirRoot ==
  /\ pc = "chdirroot"
  /\ UNCHANGED <<argv, environ, envp, build, cred, fs, config, walk, loc,
                 dev, regain, execd, entry, hist, world>>
  /\ \E ok \in BOOLEAN :
       IF ok
       THEN /\ dirs' = [dirs EXCEPT !.cwd = <<Slash>>]
            /\ ops' = Append(ops, "chdir")
            /\ pc' = "exec"
            /\ UNCHANGED io
       ELSE /\ Fail(<<"Failed to chdir to the root directory">>)
            /\ UNCHANGED <<dirs, ops>>

\* whitelist_char_check(argv[2], 1); execve(argv[2], argv + 2, envp)
Exec ==
  /\ pc = "exec"
  /\ UNCHANGED <<argv, environ, envp, build, cred, fs, config, walk, loc,
                 dirs, dev, regain, entry, hist, world>>
  /\ IF ~whitelist_char_check(Arg(2), TRUE)
     THEN /\ Fail(<<"contains non-whitelisted characters">>)
          /\ UNCHANGED <<ops, execd>>
     ELSE \E ok \in BOOLEAN :
            IF ok
            THEN /\ execd' = [done |-> TRUE, file |-> Arg(2),
                              argv |-> SubSeq(argv, 3, Len(argv)),
                              envp |-> envp]
                 /\ ops' = Append(ops, "execve")
                 /\ pc' = "execd"
                 /\ UNCHANGED io
            ELSE /\ Fail(<<"Failed to exec">>)
                 /\ UNCHANGED <<ops, execd>>

\* ---------------------------------------------------------- specification
Next ==
  \/ PortableClearenv
  \/ CheckIds
  \/ OpenConfig
  \/ ReplaceConfig
  \/ CheckBasePathStep
  \/ CheckConfigFile
  \/ ValidateTarget
  \/ ValidateBase
  \/ Authorize
  \/ SelectMode
  \/ CreateFundamentalDevice
  \/ CreateShm
  \/ UnlinkFundamentalDevice
  \/ UnlinkShm
  \/ Chdir
  \/ Chroot
  \/ Setuid
  \/ RegainTest
  \/ ChdirRoot
  \/ Exec

Spec == Init /\ [][Next]_vars

\* ------------------------------------------- successive provisioner runs
\* The owner's invocations on one chroot, one after the other, each
\* arriving at the branch on argv[2]; the chroot's /dev persists from one
\* to the next.
MaxRuns == 3

\* "/s/j/w", the chroot of these runs, owned by uid 1 (account "a").
TheJail == <<47,115,47,106,47,119>>

\* main at the branch on argv[2], every check passed, for the owner of
\* /s/j/w asking for one of the device modes.
ProvisionerEntry ==
  /\ pc = "mode"
  /\ argv \in { <<PROG, TheJail, f>> : f \in {INSTALL_FLAG, UNINSTALL_FLAG} }
  /\ environ = <<>>
  /\ envp = << <<65,61,49>>, <<66,61,50>> >>
  /\ build = [clearenv |-> TRUE, inplace |-> FALSE]
  /\ cred = [ruid |-> 1, euid |-> 0, suid |-> 0,
             rgid |-> 1, egid |-> 1, sgid |-> 1]
  /\ fs = (<<47,101>> :> [kind |-> "dir", uid |-> 0, mode |-> 493])
          @@ (CFG :> [kind |-> "reg", uid |-> 0, mode |-> 493])
          @@ (TheJail :> [kind |-> "dir", uid |-> 1, mode |-> 493])
          @@ (<<47,115,47,106>> :> [kind |-> "dir", uid |-> 1, mode |-> 493])
          @@ (<<47,115>> :> [kind |-> "dir", uid |-> 0, mode |-> 493])
  /\ config = [state |-> "closed", fdIno |-> 1, pathIno |-> 1,
               read |-> TRUE, content |-> <<97,58,47,115,47,106,10>>]
  /\ walk = [tosplit |-> <<47,115>>, interrupt |-> TRUE,
             seen |-> << <<47,115>>, <<47,115>> >>]
  /\ loc = [target_user |-> 1, path |-> TheJail, final_dir_owner |-> 1,
            base_path |-> <<47,115,47,106>>, relative_path |-> <<119>>,
            statbase_uid |-> 1, pw_name |-> <<97>>, found |-> TRUE,
            final_path |-> TheJail]
  /\ dirs = [cwd |-> <<Slash>>, root |-> <<Slash>>]
  /\ io = [stderr |-> <<>>, exitCode |-> "none"]
  /\ ops = <<>>
  /\ regain = <<>>
  /\ execd = NoExec
  /\ entry = [envp |-> envp, ruid |-> 1, euid |-> 0, rgid |-> 1, egid |-> 1]

DevInit ==
  /\ ProvisionerEntry
  /\ dev = NoDev
  /\ hist = <<>>
  /\ world = NoWorld

\* The run is over; the owner invokes the helper again on the same chroot
\* and the new process arrives at the branch on argv[2] as the one before.
NextRun ==
  /\ pc = "exit"
  /\ dev.known
  /\ Len(hist) < MaxRuns
  /\ \E f \in {INSTALL_FLAG, UNINSTALL_FLAG} : argv' = <<PROG, TheJail, f>>
  /\ pc' = "mode"
  /\ io' = [stderr |-> <<>>, exitCode |-> "none"]
  /\ ops' = <<>>
  /\ dev' = [dev EXCEPT !.umask = 18, !.i = 0]
  /\ hist' = [hist EXCEPT ![Len(hist)].exit = io.exitCode]
  /\ UNCHANGED <<environ, envp, build, cred, fs, config, walk, loc, dirs,
                 regain, execd, entry, world>>

DevNext ==
  \/ SelectMode
  \/ CreateFundamentalDevice
  \/ CreateShm
  \/ UnlinkFundamentalDevice
  \/ UnlinkShm
  \/ NextRun

DevSpec == DevInit /\ [][DevNext]_vars

\* --------------------------------------- a concurrent unprivileged user
\* A user who is neither root nor the owner of the chroot changes the path
\* while the helper runs, in the directories that user may write.

\* The directory holding the entry p.
Parent(p) ==
  IF strrchr(p, Slash) <= 1 THEN <<Slash>>
  ELSE SubSeq(p, 1, strrchr(p, Slash) - 1)

\* The entries a resolution of path goes through: each prefix that ends
\* before a slash, and path itself.
Components(path) ==
  { SubSeq(path, 1, i - 1) : i \in {k \in 2..Len(path) : path[k] = Slash} }
    \cup {path}

\* q is p or lies below p.
Below(q, p) ==
  \/ q = p
  \/ Len(q) > Len(p) /\ SubSeq(q, 1, Len(p) + 1) = p \o <<Slash>>

\* The permission to create, remove and rename entries of a directory:
\* its owner has it, and so have others when a group- or other-write bit
\* is set.
MayWrite(r, x) == r.kind = "dir" /\ (r.uid = x \/ ModeAnd022(r.mode) # 0)

\* The uids of the other user: the caller's uid 2, and a uid that is
\* neither a caller's nor an account's.
Attackers == {2, MaxUid}

\* Between the stat of the target and chroot, user x replaces the entry p
\* of the target's path (renames it away and puts a directory or a link of
\* their own in its place).  What the stats reported of p and of the
\* paths below it no longer holds.
AttackerReplace ==
  /\ pc \in {"base", "basewalk", "scan", "mode", "chdir", "chroot"}
  /\ \E x \in Attackers, p \in Components(Canon(Arg(1))) :
       /\ world.by \in {NoUid, x}
       /\ p \notin world.replaced
       /\ x # loc.final_dir_owner
       /\ \E r \in StatResults :
            /\ Lstat(Parent(p), r)
            /\ MayWrite(r, x)
            /\ fs' = [q \in ({k \in DOMAIN fs : ~Below(k, p)}
                              \cup {Parent(p)}) |->
                        IF q = Parent(p) THEN r ELSE fs[q]]
       /\ world' = [replaced |-> world.replaced \cup {p}, by |-> x]
  /\ UNCHANGED <<pc, argv, environ, envp, build, cred, config, walk, loc,
                 dirs, dev, io, ops, regain, execd, entry, hist>>

\* The runs raced: exec mode on /s/j/w by uid 2, up to chroot.
RaceInit ==
  /\ Init
  /\ argv = <<PROG, TheJail, <<47,98>> >>
  /\ environ = << <<65,61,49>>, <<66,61,50>> >>
  /\ build.clearenv
  /\ cred.euid = 0 /\ cred.ruid = 2 /\ cred.rgid # 0 /\ cred.egid # 0

RaceNext ==
  \/ PortableClearenv
  \/ CheckIds
  \/ OpenConfig
  \/ CheckBasePathStep
  \/ CheckConfigFile
  \/ ValidateTarget
  \/ ValidateBase
  \/ Authorize
  \/ SelectMode
  \/ Chdir
  \/ Chroot
  \/ AttackerReplace

RaceSpec == RaceInit /\ [][RaceNext]_vars

\* ------------------------------------------- check_base_path on any string
\* The longest path handed to the walk.
MaxPathLen == 4

\* Every string of '/' and 'a' up to that length: absolute and relative
\* paths, the empty string, "/", runs of slashes, trailing slashes.
WalkInputs == UNION { [1..n -> {Slash, 97}] : n \in 0..MaxPathLen }

\* check_base_path(path) entered from main: tosplit is a copy of path and
\* interrupt is 0.  The caller has cleared the environment and holds the
\* config open.
WalkInit ==
  /\ pc = "basewalk"
  /\ argv = <<PROG, TheJail>>
  /\ environ = <<>>
  /\ envp = <<>>
  /\ build = [clearenv |-> TRUE, inplace |-> FALSE]
  /\ cred \in {c \in EntryCreds : c.euid = 0 /\ c.ruid = 1 /\ c.rgid # 0
                                  /\ c.egid # 0}
  /\ fs = << >>
  /\ config = [state |-> "open", fdIno |-> 1, pathIno |-> 1,
               read |-> FALSE, content |-> <<>>]
  /\ walk \in [tosplit : WalkInputs, interrupt : {FALSE}, seen : {<<>>}]
  /\ loc = NoLoc
  /\ dirs = [cwd |-> <<Slash>>, root |-> <<Slash>>]
  /\ dev = NoDev
  /\ io = [stderr |-> <<>>, exitCode |-> "none"]
  /\ ops = <<>>
  /\ regain = <<>>
  /\ execd = NoExec
  /\ entry = [envp |-> <<>>, ruid |-> cred.ruid, euid |-> cred.euid,
              rgid |-> cred.rgid, egid |-> cred.egid]
  /\ hist = <<>>
  /\ world = NoWorld

WalkNext == CheckBasePathStep

\* The process runs: an iteration that can be made is made.
WalkSpec == WalkInit /\ [][WalkNext]_vars /\ WF_vars(CheckBasePathStep)

\* ------------------------------------------------------------- properties
Did(o) == \E i \in 1..Len(ops) : ops[i] = o

DevOps == {"mknod", "mkdir", "mount", "unlink", "umount", "rmdir", "chown",
           "chmod"}

DidDevOp == \E i \in 1..Len(ops) : ops[i] \in DevOps

\* chdir, chroot, setuid, execve, or a change of the chroot's devices.
DidSideEffect == ops # <<>>

LastMsg == IF io.stderr = <<>> THEN "" ELSE io.stderr[Len(io.stderr)]

Printed(m) == \E i \in 1..Len(io.stderr) : io.stderr[i] = m

ExitedWithError == pc = "exit" /\ io.exitCode = "ERR_EXIT_CODE"

\* line is a complete line of content: it starts at the start of the file
\* or after a newline, and line itself ends in the newline.
HasLine(content, line) ==
  \E i \in 1..Len(content) :
     /\ i = 1 \/ content[i - 1] = NL
     /\ i + Len(line) - 1 <= Len(content)
     /\ SubSeq(content, i, i + Len(line) - 1) = line

\* The target was accepted: the run got past the policy scan, to the
\* provisioner or to chdir and chroot.
Accepted == loc.final_path # NoPath

\* The stats of base and of base/leaf, once both were made.
StatOfBase == fs[Canon(loc.base_path)]
StatOfTarget == fs[Canon(loc.base_path \o <<Slash>> \o loc.relative_path)]

\* C1: chdir, chroot, setuid, execve and device changes happen only after
\* the scan found a complete line "<owner_name>:<base>\n" in the opened
\* file, owner_name being the account of the uid that owns base and
\* base/leaf; a scan that ends (stream closed) without such a line ends the
\* run with "Permission Denied" and the error code, none of them done.
C1_OnlyAfterPolicyMatch ==
  /\ DidSideEffect =>
       /\ config.read /\ loc.found
       /\ StatOfBase.uid = StatOfTarget.uid
       /\ StatOfBase.uid \in DOMAIN Passwd
       /\ HasLine(config.content,
                  Passwd[StatOfBase.uid] \o <<Colon>> \o loc.base_path
                    \o <<NL>>)
  /\ (config.state = "closed"
        /\ (~loc.found
              \/ ~HasLine(config.content, PolicyLine(loc.pw_name,
                                                     loc.base_path))))
     => /\ ExitedWithError
        /\ LastMsg = "Permission Denied"
        /\ ~DidSideEffect

C1_Witness == pc = "execd" /\ loc.found /\ Did("chroot")

\* C2: whenever execve is invoked, setuid(invoking real uid) has succeeded,
\* setuid(0), seteuid(0), setgid(0) and setegid(0) were each attempted and
\* each failed, the real and effective uid are the invoking real uid and
\* the real and effective gid are nonzero; a regain attempt that succeeds,
\* or an id that reads back as zero, ends the run with the error code
\* before execve.
C2_ExecOnlyAfterIrrevocableDrop ==
  /\ Did("execve") =>
       /\ Did("setuid")
       /\ Len(regain) = 4
       /\ \A k \in 1..4 :
            regain[k].call = RegainCalls[k] /\ regain[k].rc # 0
       /\ cred.ruid = entry.ruid /\ cred.euid = entry.ruid
       /\ cred.rgid # 0 /\ cred.egid # 0
  /\ (regain # <<>>
        /\ (\/ \E k \in 1..Len(regain) : regain[k].rc = 0
            \/ 0 \in {cred.ruid, cred.euid, cred.rgid, cred.egid}))
     => ExitedWithError /\ ~Did("execve")

C2_Witness ==
  pc = "execd" /\ Len(regain) = 4 /\ cred.euid = entry.ruid /\ cred.suid # 0

\* C3: the steps config-open, config-verify, target-validate, authorize,
\* provision, chdir, chroot, setuid, regain-test, exec are taken in that
\* order, and a step that fails (prints its diagnostic) terminates the
\* process with the error code before any later step acts.
C3_OrderedAndFailStop ==
  /\ io.stderr # <<>> => ExitedWithError
  /\ Did("chroot") => ops[1] = "chdir" /\ ops[2] = "chroot"
  /\ Did("execve") => ops = <<"chdir", "chroot", "setuid", "chdir", "execve">>
  /\ DidDevOp => ~Did("chdir") /\ pc \in {"install", "shm", "uninstall",
                                           "unshm", "exit"}

\* C4: when the file at the config path was replaced between the open and
\* the link-level stat (here by a regular file), so that the two inodes
\* differ, the run aborts with the error code, reading no policy line and
\* changing nothing.
C4_ReplacedConfigAborts ==
  (/\ config.state # "none"
   /\ config.fdIno # config.pathIno
   /\ CFG \in DOMAIN fs => fs[CFG].kind = "reg")
    => \/ pc \in {"cfgwalk", "cfgstat"}
       \/ ExitedWithError /\ ~config.read /\ ~DidSideEffect

\* C5: in every run that reaches the provisioner's changes or chroot, the
\* owner of base is the owner of base/leaf and is not uid 0.
C5_OwnerSharedAndNotRoot ==
  (Did("chroot") \/ DidDevOp) =>
    /\ StatOfBase.uid = StatOfTarget.uid
    /\ StatOfBase.uid # 0

\* The paths obtained from base by stripping trailing components.
Ancestors(base) ==
  { SubSeq(base, 1, i - 1) : i \in {k \in 2..Len(base) : base[k] = Slash} }

InSeq(x, q) == \E i \in 1..Len(q) : q[i] = x

TrustedDir(r) == r.kind = "dir" /\ r.uid = 0 /\ ModeAnd022(r.mode) = 0

BobOnAlicesJail ==
  /\ config.read /\ config.state = "closed"
  /\ config.content = <<97,58,47,115,47,106,10>>
  /\ entry.ruid = 2
  /\ argc >= 3
  /\ Arg(1) = <<47,115,47,106,47,119>>
  /\ Arg(2)[1] # Dash
  /\ loc.base_path = <<47,115,47,106>>
  /\ StatOfBase.uid = 1 /\ StatOfTarget.uid = 1

\* C7 as stated: in that setup the run is denied: it ends with "Permission
\* Denied" and the error code, with no chroot and no identity change.
C7_BobDenied ==
  BobOnAlicesJail =>
    /\ ExitedWithError
    /\ LastMsg = "Permission Denied"
    /\ ~Did("chroot") /\ ~Did("setuid")

\* C7 amended: in that setup the scan matches, since the line is built from
\* the owner of the directories and not from the caller: "Permission
\* Denied" is never printed, the run goes on to chdir and chroot, and what
\* it executes runs as uid 2 inside /s/j/w.
C7_BobAdmitted ==
  BobOnAlicesJail =>
    /\ loc.found
    /\ ~Printed("Permission Denied")
    /\ Accepted
    /\ pc = "exit" => LastMsg \in {"Failed to chdir to the chroot directory",
                                   "Failed to chroot",
                                   "Failed to give up privileges",
                                   "Failed to chdir to the root directory",
                                   "contains non-whitelisted characters",
                                   "Failed to exec"}
    /\ pc = "execd" =>
         /\ cred.ruid = 2 /\ cred.euid = 2
         /\ dirs.root = <<47,115,47,106,47,119>>

C7_Witness == BobOnAlicesJail /\ pc = "execd" /\ Did("chroot")

\* The mode main takes for argv[2], by the comparisons it makes.
Mode ==
  IF argc < 3 THEN "none"
  ELSE IF Arg(2) # <<>> /\ Arg(2)[1] = Dash
       THEN IF strncmp0(INSTALL_FLAG, Arg(2), 17) THEN "InstallDevices"
            ELSE IF strncmp0(UNINSTALL_FLAG, Arg(2), 19)
                 THEN "UninstallDevices"
                 ELSE "unknown"
       ELSE "Exec"

\* C8: the chroot's device nodes are created or removed only in the
\* install or uninstall mode and only when the invoking real uid is the
\* owner of the chroot; a non-owner asking for either gets "can only be
\* called by the owner", the error code, and no node created or removed.
\* (That a non-owner may enter in exec mode shows in C7_Witness.)
C8_DevicesOnlyByOwner ==
  /\ DidDevOp =>
       /\ Mode \in {"InstallDevices", "UninstallDevices"}
       /\ entry.ruid = StatOfTarget.uid
       /\ entry.ruid = StatOfBase.uid
  /\ (Accepted /\ pc # "mode" /\ Mode # "Exec"
        /\ entry.ruid # StatOfTarget.uid)
     => /\ ExitedWithError
        /\ LastMsg = "can only be called by the owner of the chroot"
        /\ ~DidDevOp
        /\ ~dev.known

C8_Witness ==
  /\ Did("mknod")
  /\ entry.ruid = StatOfTarget.uid
  /\ Arg(2) = INSTALL_FLAG

\* C9: the block execve passes is the block the process received at
\* entry, every variable still in it, under the native clear and under the
\* per-name walk alike.
C9_ChildGetsOriginalEnv ==
  execd.done => execd.envp = entry.envp

\* A byte outside the whitelist, slashes allowed.
BadByte(str) ==
  \E i \in 1..Len(str) : ~WhiteChar(str[i]) /\ str[i] # Slash

\* C10: a target with a byte outside the whitelist ends the run with the
\* error code before anything is changed: no chdir, chroot, setuid, device
\* change or exec, the run never getting past the target's validation;
\* and a leaf that got past it holds no '/'.
C10_WhitelistBeforeMutation ==
  /\ (argc >= 3 /\ BadByte(Arg(1))) =>
       /\ pc \in {"start", "envloop", "ids", "open", "cfgwalk", "cfgstat",
                 "args", "exit"}
       /\ pc = "exit" => io.exitCode = "ERR_EXIT_CODE"
       /\ ~DidSideEffect
       /\ dirs = [cwd |-> <<Slash>>, root |-> <<Slash>>]
       /\ cred.ruid = entry.ruid /\ cred.euid \in {0, entry.ruid}
       /\ ~dev.known /\ ~execd.done
       /\ Canon(Arg(1)) \notin DOMAIN fs
  /\ loc.relative_path # NoPath =>
       \A i \in 1..Len(loc.relative_path) :
          loc.relative_path[i] # Slash /\ WhiteChar(loc.relative_path[i])

C10_Witness ==
  /\ argc >= 3 /\ BadByte(Arg(1))
  /\ pc = "exit"
  /\ LastMsg = "contains non-whitelisted characters"
  /\ loc.path = Arg(1)

\* C11: the scan reports a match if and only if some complete line of the
\* file is exactly "<owner_name>:<base>" followed by a newline; a longer
\* line, a line with the target as a prefix, and a continuation fragment
\* of an overlong line never match.
C11_MatchIffExactLine ==
  config.read =>
    (loc.found <=> HasLine(config.content,
                           PolicyLine(loc.pw_name, loc.base_path)))

\* The same for the files that hold no NUL byte.
C11_MatchIffExactLineNoNul ==
  (config.read /\ \A i \in 1..Len(config.content) : config.content[i] # NUL)
    => (loc.found <=> HasLine(config.content,
                              PolicyLine(loc.pw_name, loc.base_path)))

\* A match is never reported without the exact line.
C11_MatchOnlyOnExactLine ==
  (config.read /\ loc.found)
    => HasLine(config.content, PolicyLine(loc.pw_name, loc.base_path))

\* What the link-level stat of the config path must show.
GoodConfigStat(r) == r.kind = "reg" /\ r.uid = 0 /\ ModeAnd022(r.mode) = 0

\* C12: the run proceeds past config verification only if the link-level
\* stat of the config path shows a regular file owned by uid 0 with
\* mode & 022 = 0; any other result ends the run with the error code
\* before a policy line is read and before anything is changed.
C12_ConfigMustBeRegularRootOwned ==
  (CFG \in DOMAIN fs /\ ~GoodConfigStat(fs[CFG]))
    => /\ ExitedWithError
       /\ ~config.read
       /\ loc.path = NoPath
       /\ ~DidSideEffect

\* The owner and mode halves of C12 alone.
C12_ConfigRootOwnedNotWritable ==
  (CFG \in DOMAIN fs /\ (fs[CFG].uid # 0 \/ ModeAnd022(fs[CFG].mode) # 0
                           \/ fs[CFG].kind = "none"))
    => /\ ExitedWithError
       /\ ~config.read
       /\ loc.path = NoPath
       /\ ~DidSideEffect

\* A real directory that neither group nor others may write.
RealDir(r) == r.kind = "dir" /\ ModeAnd022(r.mode) = 0

\* C13: a target is accepted only if the link-level stats of base/leaf and
\* of base each show a real directory with mode & 022 = 0 (0755 passes,
\* 0775 and 0757 do not) and no ancestor of base is a symbolic link; a
\* stat of the target or of base that shows anything else, or an ancestor
\* that is a symbolic link, ends the run with the error code.
C13_RealDirectoriesOnly ==
  /\ Accepted =>
       /\ RealDir(StatOfTarget) /\ StatOfTarget.mode = 493
       /\ RealDir(StatOfBase) /\ StatOfBase.mode = 493
       /\ \A a \in Ancestors(loc.base_path) : fs[a].kind = "dir"
  /\ (argc >= 3 /\ Canon(Arg(1)) \in DOMAIN fs
        /\ ~RealDir(fs[Canon(Arg(1))]))
     => ExitedWithError /\ ~Accepted /\ ~DidSideEffect
  /\ (loc.base_path # NoPath /\ Canon(loc.base_path) \in DOMAIN fs
        /\ ~RealDir(fs[Canon(loc.base_path)]))
     => ExitedWithError /\ ~Accepted /\ ~DidSideEffect
  /\ \A a \in Ancestors(loc.base_path) :
       (a \in DOMAIN fs /\ fs[a].kind = "lnk")
          => ExitedWithError /\ ~Accepted /\ ~DidSideEffect

C13_Witness ==
  /\ Accepted /\ Did("chroot")
  /\ StatOfTarget = [kind |-> "dir", uid |-> 1, mode |-> 493]
  /\ StatOfBase = [kind |-> "dir", uid |-> 1, mode |-> 493]

\* A target seen to be a symbolic link was turned away.
C13_WitnessSymlink ==
  /\ argc >= 3 /\ Canon(Arg(1)) \in DOMAIN fs
  /\ fs[Canon(Arg(1))].kind = "lnk"
  /\ fs[Canon(Arg(1))].mode = 493
  /\ LastMsg = "usage" /\ ExitedWithError

\* argv[2] begins with '-' and is neither of the two flags.
UnknownFlag ==
  /\ argc >= 3 /\ Arg(2) # <<>> /\ Arg(2)[1] = Dash
  /\ Arg(2) \notin {INSTALL_FLAG, UNINSTALL_FLAG}

NoModeTaken ==
  /\ ~DidDevOp /\ ~Did("chroot") /\ ~Did("execve")
  /\ pc = "exit" => io.exitCode = "ERR_EXIT_CODE"

\* C14: when argv[2] begins with '-' and is not exactly "--install-devices"
\* or "--uninstall-devices" (a longer string starting with one of them
\* included), the run ends with the error code: no device is installed or
\* removed, no chroot and no exec happen.
C14_UnknownFlagIsError == UnknownFlag => NoModeTaken

\* The same for the arguments that do not start with either flag.
C14_NonPrefixFlagIsError ==
  (UnknownFlag /\ Mode = "unknown") => NoModeTaken /\ ~dev.known

\* ---- successive runs (specification DevSpec)
NoneThere == <<"absent", "absent", "absent", "absent">>

AllThere(d) == LET made == IF d.lofs THEN "mounted" ELSE "node"
               IN <<made, made, made, made>>

\* The two runs so far: an install that found no device path present and
\* exited 0, then an uninstall, the run in progress or just over.
InstallThenUninstall ==
  /\ Len(hist) = 2
  /\ hist[1].mode = "install" /\ hist[1].exit = "0"
  /\ hist[1].nodes = NoneThere /\ hist[1].shm = "absent"
  /\ hist[2].mode = "uninstall" /\ hist[2].exit = "none"

\* The system call that ended the run failed on an object that was in
\* place: a failure of the host, not of the sequence of calls.
HostFailure ==
  CASE LastMsg \in {"Failed to unlink", "Failed to umount"}
         -> dev.nodes[dev.i] # "absent"
    [] LastMsg = "Failed to rmdir"   -> dev.nodes[dev.i] = "dir"
    [] LastMsg = "Could not unmount" -> dev.shm = "mounted"
    [] LastMsg = "Could not rmdir"   -> dev.shm = "dir"
    [] OTHER -> FALSE

\* C15: from a chroot with none of the device paths present, an install
\* that exits 0 leaves the four devices and (Linux builds) the /dev/shm
\* mount in place; the uninstall that follows exits 0 unless the host
\* fails one of its calls, and when it exits 0 the four device paths are
\* absent and /dev/shm is unmounted and absent.
C15_InstallUninstallRoundTrip ==
  InstallThenUninstall =>
    /\ hist[2].nodes = AllThere(dev)
    /\ hist[2].shm = (IF dev.linux THEN "mounted" ELSE "absent")
    /\ pc = "exit" =>
         /\ io.exitCode = "0" =>
              dev.nodes = NoneThere /\ dev.shm = "absent"
         /\ io.exitCode # "0" => HostFailure

C15_Witness ==
  /\ InstallThenUninstall
  /\ pc = "exit" /\ io.exitCode = "0"
  /\ dev.linux
  /\ Did("unlink") /\ Did("rmdir")

\* Two installs in a row with the node-copy strategy, the first having
\* exited 0; the second is in progress or just over.
SecondInstall ==
  /\ Len(hist) = 2
  /\ hist[1].mode = "install" /\ hist[1].exit = "0"
  /\ hist[2].mode = "install" /\ hist[2].exit = "none"
  /\ ~dev.lofs

\* C16: with the node-copy strategy, an install run on a chroot where a
\* first install succeeded fails with the error code at the first device,
\* which already exists, and changes nothing: the four nodes stay as they
\* were, and /dev/shm and its mount are neither unmounted nor removed nor
\* made again (the /dev/shm block is never reached).
C16_SecondInstallFailsHarmlessly ==
  SecondInstall =>
    /\ hist[2].nodes = AllThere(dev)
    /\ hist[2].shm = (IF dev.linux THEN "mounted" ELSE "absent")
    /\ dev.nodes = hist[2].nodes
    /\ dev.shm = hist[2].shm
    /\ ops = <<>>
    /\ pc \in {"install", "exit"}
    /\ pc = "exit" => ExitedWithError /\ io.stderr = <<"already exists">>

C16_Witness ==
  SecondInstall /\ pc = "exit" /\ dev.linux /\ dev.shm = "mounted"

\* ---- the entry checks (specification Spec)
\* The identities the helper is meant to be started with.
GoodEntry ==
  entry.euid = 0 /\ entry.ruid # 0 /\ entry.rgid # 0 /\ entry.egid # 0

\* C17: the run opens the config, and does anything after that, only if
\* at entry the effective uid is 0 and the real uid, the real gid and the
\* effective gid are not 0; otherwise it ends with the error code in the
\* environment clearing or the identity checks, the config never opened,
\* no chroot, no provisioning, no exec.
C17_EntryIdentityChecks ==
  ~GoodEntry =>
    /\ pc \in {"start", "envloop", "ids", "exit"}
    /\ pc = "exit" =>
         /\ io.exitCode = "ERR_EXIT_CODE"
         /\ LastMsg \in {"Should be run with root privileges",
                         "userchroot should not be setgid root",
                         "Should not be run as root",
                         "Failed to clear environment",
                         "Failed to clear envionment",
                         "Corrupted environment"}
    /\ config.state = "none" /\ ~config.read
    /\ ~DidSideEffect /\ ~dev.known /\ ~execd.done
    /\ fs = << >>

C17_Witness ==
  /\ entry.euid = 0 /\ entry.ruid # 0 /\ entry.rgid = 0 /\ entry.egid # 0
  /\ pc = "exit"
  /\ LastMsg = "userchroot should not be setgid root"

\* ---- the ancestor walk (specification Spec)
\* The path the walk in progress, or the last one made, was given.
WalkPath == IF loc.pw_name # NoPath THEN loc.base_path ELSE CFG

\* The walk reached its last iteration.
WalkDone == walk.tosplit # NoPath /\ walk.interrupt

\* C18: the walk, given an absolute path, ends with a link-level stat and
\* the three checks on "/" itself, stats no ancestor twice, and never
\* stats (and so never applies the directory check to) the path it was
\* given.
C18_WalkEndsAtRootOncePerAncestor ==
  /\ WalkDone => walk.seen[Len(walk.seen)] = <<Slash>>
  /\ \A i, k \in 1..Len(walk.seen) : walk.seen[i] = walk.seen[k] => i = k
  /\ walk.tosplit # NoPath => ~InSeq(WalkPath, walk.seen)

\* What the walk does: it stats every ancestor but "/", the topmost one
\* twice, and a path of one component itself.
C18_WalkAsCoded ==
  WalkDone =>
    /\ ~InSeq(<<Slash>>, walk.seen)
    /\ Len(walk.seen) >= 2 =>
         walk.seen[Len(walk.seen)] = walk.seen[Len(walk.seen) - 1]
    /\ Ancestors(WalkPath) = {} => walk.seen = <<WalkPath>>
    /\ \A a \in Ancestors(WalkPath) : InSeq(a, walk.seen)

\* ---- a concurrent unprivileged user (specification RaceSpec)
\* C19: whatever a user who is neither root nor the owner does between
\* the validation stats and chroot, the directory that becomes the new
\* root is the one the stats approved (no entry of its path was replaced)
\* and the policy line matched is the one of its owner.
C19_ApprovedDirectoryBecomesRoot ==
  /\ Did("chroot") => world.replaced = {}
  /\ Accepted =>
       /\ loc.statbase_uid = loc.final_dir_owner
       /\ loc.pw_name = Passwd[loc.final_dir_owner]

\* The races that get through all start in a root directory the user may
\* write: the entries of base and of the ancestors the walk stats cannot
\* be replaced in a run that reaches chroot.
C19_OnlyThroughRootDirectory ==
  (Did("chroot") /\ world.replaced # {}) =>
     /\ <<Slash>> \in DOMAIN fs /\ MayWrite(fs[<<Slash>>], world.by)
     /\ \E p \in world.replaced : Parent(p) = <<Slash>>

\* ---- failures inside the provisioner (specification DevSpec)
\* Run k was an install that failed and left something at a device path,
\* and run k+1 is an install.
InstallAfterFailedInstall(k) ==
  /\ k + 1 <= Len(hist)
  /\ hist[k].mode = "install" /\ hist[k].exit = "ERR_EXIT_CODE"
  /\ hist[k + 1].mode = "install"
  /\ hist[k + 1].nodes # NoneThere

\* The install after a failed one fails too and overwrites nothing.
NextInstallRefuses ==
  \A k \in 1..Len(hist) :
     InstallAfterFailedInstall(k) =>
        IF k + 1 < Len(hist)
        THEN hist[k + 1].exit = "ERR_EXIT_CODE"
        ELSE /\ pc = "exit" => ExitedWithError
             /\ \A i \in 1..Len(DevPaths) :
                  hist[k + 1].nodes[i] # "absent"
                     => dev.nodes[i] = hist[k + 1].nodes[i]

\* C20: a system call of the provisioner that fails ends the run there,
\* with its diagnostic and the error code, no later step of the
\* provisioner being made; and the install that follows a failed install
\* which left something behind fails instead of overwriting it.
C20_ProvisionerFailStop ==
  /\ io.stderr # <<>> => ExitedWithError /\ Len(io.stderr) = 1
  /\ NextInstallRefuses

\* The second half of C20 alone.
C20_NextInstallRefuses == NextInstallRefuses

\* ------------------------------------------------------------------- C21
\* The block main received holds an entry whose name is empty ("=x").
HasEmptyName(blk) == \E i \in 1..Len(blk) : strcspn(blk[i], Equals) = 0

\* The run ended in portable_clearenv.
ClearFailed ==
  \/ Printed("Failed to clear environment")
  \/ Printed("Failed to clear envionment")
  \/ Printed("Corrupted environment")

\* Nothing of the run has happened yet: no identity was looked at, the
\* config is not open, no path was stat-ed and no argument was taken.
NothingYet ==
  /\ config.state = "none" /\ fs = << >> /\ loc = NoLoc
  /\ walk.tosplit = NoPath /\ io.stderr = <<>> /\ ops = <<>>
  /\ cred.ruid = entry.ruid /\ cred.euid = entry.euid
  /\ cred.rgid = entry.rgid /\ cred.egid = entry.egid

\* Clearing comes first, every later step runs on an empty environment,
\* and a run that ends in the clearing ends with the error code, nothing
\* else done.
ClearedFirst ==
  /\ pc \in {"start", "envloop"} => NothingYet
  /\ (pc \notin {"start", "envloop"} /\ ~ClearFailed) => environ = <<>>
  /\ ClearFailed => /\ ExitedWithError /\ Len(io.stderr) = 1
                    /\ config.state = "none" /\ fs = << >> /\ loc = NoLoc
                    /\ ops = <<>>

\* C21: clearing the environment is the first thing a run does, before
\* the identity checks, the opening of the config and the reading of any
\* argument; every later step finds the environment empty; a failure to
\* clear, or an entry with an empty name, ends the run with the error
\* code.
C21_EnvironmentClearedFirst ==
  /\ ClearedFirst
  /\ (HasEmptyName(entry.envp) /\ pc \notin {"start", "envloop"})
        => ExitedWithError /\ ClearFailed

\* C21 as the code has it: the empty name ends the run where the
\* environment is walked name by name; the native clear removes such an
\* entry like any other and the run goes on.
C21_EmptyNameEndsTheWalk ==
  /\ ClearedFirst
  /\ (~build.clearenv /\ HasEmptyName(entry.envp)
        /\ pc \notin {"start", "envloop"})
        => ExitedWithError /\ ClearFailed

\* A whole run, to execve, of a process that came with variables.
C21_Witness ==
  /\ execd.done /\ entry.envp # <<>> /\ environ = <<>>

\* The walk met the empty name and the run ended there.
C21_WitnessCorrupted ==
  /\ ~build.clearenv /\ HasEmptyName(entry.envp)
  /\ ExitedWithError /\ LastMsg = "Corrupted environment"

\* The native clear removed an entry with an empty name and the run
\* went on to execve.
C21_WitnessNativeClear ==
  /\ build.clearenv /\ HasEmptyName(entry.envp) /\ execd.done

\* The walk came to an entry without '=' and turns on it.
C21_WitnessLoop == pc = "envloop" /\ environ # <<>>

\* ------------------------------------------------------------------- C22
\* The run ended on a failed fclose, before the outcome of the scan was
\* looked at.
CloseFailed ==
  /\ ExitedWithError /\ LastMsg = "Failed to close configuration file"
  /\ ~Accepted /\ ops = <<>> /\ ~dev.known /\ ~execd.done

\* C22: the config stream is closed right after the policy scan, on the
\* matched and on the unmatched outcome alike, so that the provisioner,
\* chdir, chroot and execve all run with the config descriptor closed and
\* the executed command does not inherit it; a close that fails ends the
\* run with the error code.
C22_ConfigClosedAfterScan ==
  /\ config.read => config.state = "closed" \/ CloseFailed
  /\ Printed("Permission Denied") => config.state = "closed"
  /\ (Accepted \/ dev.known \/ DidSideEffect \/ execd.done)
        => config.read /\ config.state = "closed"
  /\ Printed("Failed to close configuration file") => CloseFailed

\* A run carried to execve: the stream was read and is closed.
C22_Witness ==
  /\ execd.done /\ Did("chroot") /\ config.read /\ config.state = "closed"

\* The unmatched outcome: closed, then "Permission Denied".
C22_WitnessDenied ==
  /\ ExitedWithError /\ LastMsg = "Permission Denied"
  /\ config.state = "closed"

\* The provisioner at work with the stream closed.
C22_WitnessProvisioner == DidDevOp /\ config.state = "closed"

\* A close that failed after a scan that had matched.
C22_WitnessCloseFailed == CloseFailed /\ loc.found

\* ------------------------------------------------------------------- C23
NoSlash(t) == \A i \in 1..Len(t) : t[i] # Slash

\* The only slash of t is its first byte.
OnlyLeadingSlash(t) ==
  /\ Len(t) >= 1 /\ t[1] = Slash
  /\ \A i \in 2..Len(t) : t[i] # Slash

\* u is t with its last slash and what followed it cut off.
OneComponentShorter(u, t) ==
  /\ Len(u) < Len(t)
  /\ u = SubSeq(t, 1, Len(u))
  /\ t[Len(u) + 1] = Slash
  /\ \A i \in (Len(u) + 2)..Len(t) : t[i] # Slash

InWalk == pc \in {"cfgwalk", "basewalk"}

\* One iteration: the path loses its last component, or the iteration is
\* the last (the leading slash was the last one, or there was none and
\* the walk aborts with its message).
WalkIteration ==
  /\ \/ OneComponentShorter(walk'.tosplit, walk.tosplit)
     \/ walk'.interrupt /\ OnlyLeadingSlash(walk.tosplit)
                        /\ walk'.tosplit = walk.tosplit
     \/ NoSlash(walk.tosplit) /\ pc' = "exit"
  /\ NoSlash(walk.tosplit)
        <=> /\ pc' = "exit" /\ io'.exitCode = "ERR_EXIT_CODE"
            /\ io'.stderr = <<"Paths should be always absolute">>
  /\ pc' \notin {"exit", pc} => walk'.interrupt

\* The walk has returned to its caller.
WalkReturned == pc \in {"cfgstat", "scan"}

\* C23: the ancestor walk ends on every input string: an iteration cuts
\* the last component off the working path or is the last one; a path
\* without '/' aborts with "Paths should be always absolute"; the walk
\* returns only after the iteration that found the leading slash to be
\* the last slash left.
C23_WalkTerminates ==
  /\ [][WalkIteration]_vars
  /\ []((WalkReturned \/ walk.interrupt) => OnlyLeadingSlash(walk.tosplit))
  /\ [](WalkReturned => walk.interrupt)
  /\ <>(~InWalk)

\* A walk of three iterations that returned.
C23_Witness ==
  /\ WalkReturned /\ Len(walk.seen) >= 3 /\ OnlyLeadingSlash(walk.tosplit)

\* A relative path: one component cut off, then the abort.
C23_WitnessRelative ==
  /\ Printed("Paths should be always absolute") /\ Len(walk.seen) >= 1
  /\ ExitedWithError

====
